---- MODULE Spec2Model ----
(***************************************************************************)
(* Model of observation.py: the Observations set, its band curve table     *)
(* (params, built in __init__), add_obs, and tick with calculate_priority  *)
(* and calculate_completion.                                               *)
(*                                                                         *)
(* Floating-point values are modelled as exact rationals [n, d] in lowest  *)
(* terms with d > 0, so every comparison below is a comparison in exact    *)
(* arithmetic.                                                             *)
(***************************************************************************)
EXTENDS Integers, Sequences, FiniteSets, TLC

VARIABLES num_obs, band, completed, used_time, allocated_time, obs_time,
          valid_site_times, priority, timeslot, params, ordered, raised, call

vars == <<num_obs, band, completed, used_time, allocated_time, obs_time,
          valid_site_times, priority, timeslot, params, ordered, raised, call>>

(* ------------------------------ bounds ---------------------------------- *)

MaxObs == 3

MaxDen == 5

(* ------------------------- exact arithmetic ----------------------------- *)

Abs(x) == IF x < 0 THEN -x ELSE x

RECURSIVE GCD(_, _)
GCD(a, b) == IF b = 0 THEN a ELSE GCD(b, a % b)

Rat(n, d) ==
    LET s == IF d < 0 THEN -1 ELSE 1
        g == GCD(Abs(n), Abs(d))
    IN  [n |-> (s * n) \div g, d |-> (s * d) \div g]

RInt(k) == [n |-> k, d |-> 1]

RAdd(a, b) == Rat(a.n * b.d + b.n * a.d, a.d * b.d)

RSub(a, b) == Rat(a.n * b.d - b.n * a.d, a.d * b.d)

RMul(a, b) == Rat(a.n * b.n, a.d * b.d)

RDiv(a, b) == Rat(a.n * b.d, a.d * b.n)

RLt(a, b) == a.n * b.d < b.n * a.d

RLe(a, b) == a.n * b.d <= b.n * a.d

(* --------------------------- __init__ ----------------------------------- *)

InitialParams ==
    [b \in {"1", "2", "3", "4"} |->
        IF b = "4"
        THEN [m1 |-> RInt(0), b1 |-> RInt(0), m2 |-> RInt(0), b2 |-> RInt(0),
              xb |-> Rat(8, 10), xb0 |-> RInt(0), xc0 |-> RInt(0)]
        ELSE [m1 |-> Rat(1406, 1000),
              b1 |-> IF b = "1" THEN RInt(2) ELSE IF b = "2" THEN RInt(1) ELSE RInt(0),
              m2 |-> Rat(50, 100), b2 |-> Rat(5, 10),
              xb |-> Rat(8, 10), xb0 |-> RInt(0), xc0 |-> RInt(0)]]

M2Table == ("3" :> RInt(1)) @@ ("2" :> RInt(6)) @@ ("1" :> RInt(20))

BandOrder == <<"3", "2", "1">>

XbInit == Rat(8, 10)

B1Init == Rat(2, 10)

B2Of(b1, m2) == RSub(RAdd(b1, RInt(5)), m2)

M1OfNotSquared(m2, xb, b2) == RDiv(RAdd(RMul(m2, xb), b2), xb)

M1Of(m2, xb, b2) == RDiv(RAdd(RMul(m2, xb), b2), RMul(xb, xb))

NextB1NoAccumulation(b1, m2, b2) == b1

NextB1(b1, m2, b2) == RAdd(b1, RAdd(RMul(m2, RInt(1)), b2))

RECURSIVE SpreadBands(_, _, _)
SpreadBands(p, b1, order) ==
    IF order = <<>> THEN p
    ELSE LET bnd == Head(order)
             m2  == M2Table[bnd]
             b2  == B2Of(b1, m2)
             m1  == M1Of(m2, XbInit, b2)
         IN  SpreadBands([p EXCEPT ![bnd] = [@ EXCEPT !.m1 = m1, !.m2 = m2,
                                                       !.b1 = b1, !.b2 = b2,
                                                       !.xb = XbInit]],
                         NextB1(b1, m2, b2), Tail(order))

BuildParams == SpreadBands(InitialParams, B1Init, BandOrder)

NoCall == [op |-> "init", band |-> "", valid_times |-> <<>>,
           allocated_time |-> 0, obs_time |-> 0, timeslot |-> 0]

Init ==
    /\ num_obs = 0
    /\ band = <<>>
    /\ completed = <<>>
    /\ used_time = <<>>
    /\ allocated_time = <<>>
    /\ obs_time = <<>>
    /\ valid_site_times = <<>>
    /\ priority = <<>>
    /\ timeslot = 0
    /\ params = BuildParams
    /\ ordered = <<>>
    /\ raised = "none"
    /\ call = NoCall

(* ---------------------------- add_obs ----------------------------------- *)

SitesA == (0 :> {"GN"}) @@ (1 :> {"GN", "GS"})

SitesB == (0 :> {"GS"}) @@ (1 :> {"GN"})

SitesC == (0 :> {"GN"}) @@ (1 :> {"GN"})

AddObsArgs ==
    { <<"3", SitesA, 480, 300>>,
      <<"1", SitesB, 300, 250>>,
      <<"2", SitesB, 200, 150>>,
      <<"2", SitesC, 300, 250>>,
      <<"4", SitesC, 300, 200>>,
      <<"1", SitesB, 100, 0>>,
      <<"3", SitesA, 200, 300>>,
      <<"2", SitesB, -200, 150>>,
      <<"1", SitesB, 0, 250>>,
      <<"5", SitesC, 300, 200>> }

Timeslots == {0, 1}

AddCall(b, vt, at, ot) ==
    [op |-> "add_obs", band |-> b, valid_times |-> vt,
     allocated_time |-> at, obs_time |-> ot, timeslot |-> 0]

TickCall(ts) ==
    [op |-> "tick", band |-> "", valid_times |-> <<>>,
     allocated_time |-> 0, obs_time |-> 0, timeslot |-> ts]


AddObsAssertLast(b, vt, at, ot) ==
    /\ num_obs < MaxObs
    /\ Len(band) < MaxObs
    /\ call' = AddCall(b, vt, at, ot)
    /\ band' = Append(band, b)
    /\ valid_site_times' = Append(valid_site_times, vt)
    /\ used_time' = Append(used_time, 0)
    /\ allocated_time' = Append(allocated_time, at)
    /\ obs_time' = Append(obs_time, ot)
    /\ IF at = 0
       THEN raised' = "AssertionError" /\ UNCHANGED num_obs
       ELSE raised' = "none" /\ num_obs' = num_obs + 1
    /\ UNCHANGED <<completed, priority, timeslot, params, ordered>>

AddObsNoCount(b, vt, at, ot) ==
    /\ num_obs < MaxObs
    /\ Len(band) < MaxObs
    /\ call' = AddCall(b, vt, at, ot)
    /\ IF at = 0
       THEN /\ raised' = "AssertionError"
            /\ UNCHANGED <<band, valid_site_times, used_time, allocated_time,
                           obs_time, num_obs>>
       ELSE /\ raised' = "none"
            /\ band' = Append(band, b)
            /\ valid_site_times' = Append(valid_site_times, vt)
            /\ used_time' = Append(used_time, 0)
            /\ allocated_time' = Append(allocated_time, at)
            /\ obs_time' = Append(obs_time, ot)
            /\ UNCHANGED num_obs
    /\ UNCHANGED <<completed, priority, timeslot, params, ordered>>

AddObs(b, vt, at, ot) ==
    /\ num_obs < MaxObs
    /\ call' = AddCall(b, vt, at, ot)
    /\ IF at = 0
       THEN /\ raised' = "AssertionError"
            /\ UNCHANGED <<band, valid_site_times, used_time, allocated_time,
                           obs_time, num_obs>>
       ELSE /\ raised' = "none"
            /\ band' = Append(band, b)
            /\ valid_site_times' = Append(valid_site_times, vt)
            /\ used_time' = Append(used_time, 0)
            /\ allocated_time' = Append(allocated_time, at)
            /\ obs_time' = Append(obs_time, ot)
            /\ num_obs' = num_obs + 1
    /\ UNCHANGED <<completed, priority, timeslot, params, ordered>>

(* ----------------------- calculate_completion --------------------------- *)

CalculateCompletion(used, obs, alloc) ==
    [i \in 1..Len(used) |->
        LET time == Rat(used[i] + obs[i], alloc[i])
        IN  IF RLt(RInt(1), time) THEN RInt(1) ELSE time]

(* ------------------------ calculate_priority ---------------------------- *)

\* self.band holds strings, so the comparison with the integer 3 is never true.
BandIsInt3(b) == FALSE

XbFor(p, b) == IF BandIsInt3(b) THEN Rat(8, 10) ELSE p[b].xb

InterceptWithoutB1(pb) == RAdd(pb.b2, pb.xb0)

Intercept(pb) == RAdd(RAdd(pb.b2, pb.xb0), pb.b1)

QuadSegmentWithoutB1(pb, c) == RMul(pb.m1, RMul(c, c))

QuadSegment(pb, c) == RAdd(RMul(pb.m1, RMul(c, c)), pb.b1)

LinSegment(pb, c) == RAdd(RMul(pb.m2, c), Intercept(pb))

FullSegment(pb) == RAdd(RAdd(RMul(pb.m2, RInt(1)), Intercept(pb)), pb.xc0)

MetricAt(p, b, c) ==
    IF c = RInt(0) THEN RInt(0)
    ELSE IF RLt(c, XbFor(p, b)) THEN QuadSegment(p[b], c)
    ELSE IF RLt(c, RInt(1)) THEN LinSegment(p[b], c)
    ELSE FullSegment(p[b])

\* The loop of calculate_priority: str(self.band[ii]) missing from self.params
\* raises KeyError before self.priority is assigned.
CalculatePriority(p, bands, compl) ==
    IF \E i \in 1..Len(compl) : bands[i] \notin DOMAIN p
    THEN [raised |-> "KeyError", metric |-> <<>>]
    ELSE [raised |-> "none",
          metric |-> [i \in 1..Len(compl) |-> MetricAt(p, bands[i], compl[i])]]

(* ------------------------------- tick ----------------------------------- *)

\* Python's tuple comparison on (priority, index) pairs.
PairLt(x, y) == RLt(x[1], y[1]) \/ (x[1] = y[1] /\ x[2] < y[2])

RECURSIVE Insert(_, _)
Insert(x, s) ==
    IF s = <<>> THEN <<x>>
    ELSE IF PairLt(x, Head(s)) THEN <<x>> \o s
    ELSE <<Head(s)>> \o Insert(x, Tail(s))

RECURSIVE Sorted(_)
Sorted(s) == IF s = <<>> THEN <<>> ELSE Insert(Head(s), Sorted(Tail(s)))

Reversed(s) == [i \in 1..Len(s) |-> s[Len(s) + 1 - i]]

\* zip(priority, range(len(priority)))
ZipWithRange(prio) == [i \in 1..Len(prio) |-> <<prio[i], i - 1>>]

\* zip(*pairs): no pairs give the empty list, otherwise one tuple per component.
Unzip(pairs) ==
    IF pairs = <<>> THEN <<>>
    ELSE << [i \in 1..Len(pairs) |-> pairs[i][1]],
            [i \in 1..Len(pairs) |-> pairs[i][2]] >>

OrderedAscending(prio) ==
    LET z == Unzip(Sorted(ZipWithRange(prio)))
    IN  IF Len(z) < 2 THEN [raised |-> "IndexError", ordered |-> <<>>]
        ELSE [raised |-> "none", ordered |-> z[2]]

\* Descending priority, equal priorities kept in insertion order.
RECURSIVE InsertStable(_, _)
InsertStable(x, s) ==
    IF s = <<>> THEN <<x>>
    ELSE IF RLt(Head(s)[1], x[1]) THEN <<x>> \o s
    ELSE <<Head(s)>> \o InsertStable(x, Tail(s))

RECURSIVE SortedStableDescending(_)
SortedStableDescending(s) ==
    IF s = <<>> THEN <<>>
    ELSE InsertStable(s[Len(s)], SortedStableDescending(SubSeq(s, 1, Len(s) - 1)))

OrderedStable(prio) ==
    LET z == Unzip(SortedStableDescending(ZipWithRange(prio)))
    IN  IF Len(z) < 2 THEN [raised |-> "IndexError", ordered |-> <<>>]
        ELSE [raised |-> "none", ordered |-> z[2]]

Ordered(prio) ==
    LET z == Unzip(Reversed(Sorted(ZipWithRange(prio))))
    IN  IF Len(z) < 2 THEN [raised |-> "IndexError", ordered |-> <<>>]
        ELSE [raised |-> "none", ordered |-> z[2]]

Tick(ts) ==
    LET compl == CalculateCompletion(used_time, obs_time, allocated_time)
        cp    == CalculatePriority(params, band, compl)
        ord   == Ordered(cp.metric)
    IN  /\ call' = TickCall(ts)
        /\ timeslot' = ts
        /\ completed' = compl
        /\ IF cp.raised # "none"
           THEN /\ raised' = cp.raised
                /\ UNCHANGED <<priority, ordered>>
           ELSE /\ priority' = cp.metric
                /\ IF ord.raised # "none"
                   THEN raised' = ord.raised /\ UNCHANGED ordered
                   ELSE raised' = "none" /\ ordered' = ord.ordered
        /\ UNCHANGED <<num_obs, band, used_time, allocated_time, obs_time,
                       valid_site_times, params>>

(* --------------------------- specifications ----------------------------- *)

AddObsStep == \E a \in AddObsArgs : AddObs(a[1], a[2], a[3], a[4])

TickStep == \E ts \in Timeslots : Tick(ts)

Next == AddObsStep \/ TickStep

Spec == Init /\ [][Next]_vars

\* Two observations whose completion fractions range over every n/d with
\* 0 <= n <= d <= MaxDen, as left by two add_obs calls on a fresh set.
CurveBands == {"1", "2", "3", "4"}

CurveTimes == {<<n, d>> \in (0..MaxDen) \X (1..MaxDen) : n <= d}

InitCurve ==
    \E bA \in CurveBands, bB \in CurveBands, tA \in CurveTimes, tB \in CurveTimes :
        /\ num_obs = 2
        /\ band = <<bA, bB>>
        /\ completed = <<>>
        /\ used_time = <<0, 0>>
        /\ allocated_time = <<tA[2], tB[2]>>
        /\ obs_time = <<tA[1], tB[1]>>
        /\ valid_site_times = <<SitesA, SitesB>>
        /\ priority = <<>>
        /\ timeslot = 0
        /\ params = BuildParams
        /\ ordered = <<>>
        /\ raised = "none"
        /\ call = AddCall(bB, SitesB, tB[2], tB[1])

NextCurve == TickStep

SpecCurve == InitCurve /\ [][NextCurve]_vars

(* ------------------------------ properties ------------------------------ *)

Ticked == call.op = "tick" /\ raised = "none"

Adjacent(lo, hi) == <<lo, hi>> \in {<<"3", "2">>, <<"2", "1">>}

CurveGrid == {Rat(t[1], t[2]) : t \in CurveTimes}

IsMaxOf(x, b) == \A c \in CurveGrid : RLe(MetricAt(params, b, c), x)

IsMinPositiveOf(x, b) ==
    \A c \in CurveGrid \ {RInt(0)} : RLe(x, MetricAt(params, b, c))

C2_Monotonic ==
    (/\ Ticked
     /\ band[1] = band[2]
     /\ band[1] \in {"1", "2", "3"}
     /\ RLe(completed[1], completed[2]))
    => RLe(priority[1], priority[2])

C2_Witness ==
    /\ Ticked
    /\ band = <<"2", "2">>
    /\ completed = <<Rat(3, 4), Rat(4, 5)>>
    /\ RLt(priority[1], priority[2])

\* C3 (continuity at the join): for every band 1..4, the priority tick
\* assigns at completion = xb (the linear segment with the evaluation-time
\* intercept b2 + xb0 + b1) equals the quadratic segment m1*xb^2 + b1 at xb.
C3_ContinuousAtJoin ==
    (/\ Ticked
     /\ band[1] \in {"1", "2", "3", "4"}
     /\ completed[1] = XbFor(params, band[1]))
    => /\ priority[1] = LinSegment(params[band[1]], completed[1])
       /\ priority[1] = QuadSegment(params[band[1]], completed[1])

C3_Witness ==
    /\ Ticked
    /\ band[1] = "1"
    /\ completed[1] = Rat(4, 5)
    /\ priority[1] = Rat(326, 10)

\* C4 (completion clamped): after any tick every observation has completion
\* in the closed interval [0, 1].
C4_CompletionInUnitInterval ==
    call.op = "tick" =>
        \A i \in 1..Len(completed) :
            RLe(RInt(0), completed[i]) /\ RLe(completed[i], RInt(1))

IsPermutationOfIndices(s, n) ==
    /\ Len(s) = n
    /\ \A k \in 0..(n - 1) : \E q \in 1..n : s[q] = k

ScenarioAdded ==
    /\ band = <<"3", "1", "2">>
    /\ allocated_time = <<480, 300, 200>>
    /\ obs_time = <<300, 250, 150>>

\* C5 (ordering): the ordering tick computes is a permutation of the indices
\* 0..num_obs-1 with priority non-increasing from first to last; for the
\* scenario (band 3: 300/480, band 1: 250/300, band 2: 150/200) it is
\* band 1, then band 2, then band 3.
C5_OrderedDescending ==
    Ticked =>
        /\ IsPermutationOfIndices(ordered, num_obs)
        /\ \A q \in 1..(Len(ordered) - 1) :
              RLe(priority[ordered[q + 1] + 1], priority[ordered[q] + 1])
        /\ ScenarioAdded => ordered = <<1, 2, 0>>

C5_Witness ==
    /\ Ticked
    /\ ScenarioAdded
    /\ completed = <<Rat(5, 8), Rat(5, 6), Rat(3, 4)>>
    /\ ordered = <<1, 2, 0>>

\* C6 (add_obs with allocated_time = 0): the call fails with an error and
\* num_obs and every per-observation collection are as before the call.
C6_ZeroAllocatedNoEffect ==
    [][(call'.op = "add_obs" /\ call'.allocated_time = 0)
         => /\ raised' = "AssertionError"
            /\ UNCHANGED <<num_obs, band, valid_site_times, used_time,
                           allocated_time, obs_time, completed, priority>>]_vars

C6_Witness ==
    /\ call.op = "add_obs"
    /\ call.allocated_time = 0
    /\ raised = "AssertionError"
    /\ num_obs = 2
    /\ Len(priority) = 2

\* C7 (tick is total): every tick call, in any reachable state including the
\* one with zero observations, returns without raising.
C7_TickTotal == call.op = "tick" => raised = "none"

\* C9 (collections in step): every per-observation collection has exactly
\* num_obs entries in every reachable state.
C9_AllCollectionsNumObs ==
    /\ Len(band) = num_obs
    /\ Len(used_time) = num_obs
    /\ Len(allocated_time) = num_obs
    /\ Len(obs_time) = num_obs
    /\ Len(valid_site_times) = num_obs
    /\ Len(completed) = num_obs
    /\ Len(priority) = num_obs

\* C9 (amended): band, used_time, allocated_time, obs_time and
\* valid_site_times have exactly num_obs entries in every reachable state;
\* completed and priority never have more than num_obs entries, completed has
\* exactly num_obs right after a tick call, and priority has exactly num_obs
\* right after a tick call whose calculate_priority did not raise KeyError.
C9_InputCollectionsNumObs ==
    /\ Len(band) = num_obs
    /\ Len(used_time) = num_obs
    /\ Len(allocated_time) = num_obs
    /\ Len(obs_time) = num_obs
    /\ Len(valid_site_times) = num_obs
    /\ Len(completed) <= num_obs
    /\ Len(priority) <= num_obs
    /\ call.op = "tick" => Len(completed) = num_obs
    /\ (call.op = "tick" /\ raised # "KeyError") => Len(priority) = num_obs

C9_Witness ==
    /\ call.op = "add_obs"
    /\ raised = "none"
    /\ num_obs = 2
    /\ Len(band) = 2
    /\ Len(completed) = 1
    /\ Len(priority) = 1

EqualPriority(i, j) == priority[i + 1] = priority[j + 1]

\* C10 (tie-breaking): of two observations with equal priority after tick,
\* the one with the lower index comes first in the ordering.
C10_TiesInInsertionOrder ==
    Ticked =>
        \A q \in 1..Len(ordered), r \in 1..Len(ordered) :
            (q < r /\ EqualPriority(ordered[q], ordered[r]))
            => ordered[q] < ordered[r]

\* C10 (amended): of two observations with equal priority after tick, the
\* one with the higher index comes first in the ordering.
C10_TiesInReverseInsertionOrder ==
    Ticked =>
        \A q \in 1..Len(ordered), r \in 1..Len(ordered) :
            (q < r /\ EqualPriority(ordered[q], ordered[r]))
            => ordered[q] > ordered[r]

C10_Witness ==
    /\ Ticked
    /\ num_obs = 3
    /\ EqualPriority(0, 2)
    /\ ~EqualPriority(0, 1)
    /\ \E q \in 1..2 : ordered[q] = 2 /\ ordered[q + 1] = 0

====
